---- MODULE Spec2Model ----
(***************************************************************************)
(* Portfolio X-Ray: the holdings pipeline of portfolio_manager.py          *)
(* (ISharesDownloader, CSVProcessor, PortfolioManager) and the entry point *)
(* run_analysis of dashboard.py.                                           *)
(*                                                                         *)
(* float64 values are modelled as extended rationals <<n, d>>: d > 0 is    *)
(* the reduced fraction n/d, <<1,0>> is +inf, <<-1,0>> is -inf and <<0,0>> *)
(* is NaN.  Rounding is not modelled: arithmetic on finite values is       *)
(* exact.  Python strings are sequences of one-character strings, so that  *)
(* lower(), upper(), strip(), substring search and ordering are computed.  *)
(***************************************************************************)
EXTENDS Integers, Sequences, FiniteSets, TLC

\* ------------------------------------------------------------------ bounds
MaxComponents == 2
MaxRawRows == 2
MaxLedgerRows == 3
MaxCalls == 2
MaxClassRows == 2

\* ------------------------------------------------------- float64 arithmetic
Abs(x) == IF x < 0 THEN -x ELSE x

Sgn(x) == IF x < 0 THEN -1 ELSE IF x > 0 THEN 1 ELSE 0

RECURSIVE Gcd(_, _)
Gcd(a, b) == IF b = 0 THEN a ELSE Gcd(b, a % b)

\* the float with value n/d (d = 0: the special values)
Q(n, d) ==
    IF d = 0 THEN <<Sgn(n), 0>>
    ELSE LET g == Gcd(Abs(n), Abs(d))
             s == IF d < 0 THEN -1 ELSE 1
         IN  <<(s * n) \div g, (s * d) \div g>>

NaN == <<0, 0>>
PosInf == <<1, 0>>
NegInf == <<-1, 0>>
Zero == <<0, 1>>
One == <<1, 1>>

IsNaN(x) == x = NaN
IsFinite(x) == x[2] > 0

\* IEEE addition
FAdd(x, y) ==
    IF IsNaN(x) \/ IsNaN(y) THEN NaN
    ELSE IF ~IsFinite(x) /\ ~IsFinite(y) THEN (IF x = y THEN x ELSE NaN)
    ELSE IF ~IsFinite(x) THEN x
    ELSE IF ~IsFinite(y) THEN y
    ELSE Q(x[1] * y[2] + y[1] * x[2], x[2] * y[2])

\* IEEE multiplication (inf * 0 = NaN falls out of Q)
FMul(x, y) == Q(x[1] * y[1], x[2] * y[2])

\* IEEE division as numpy performs it: x/0 is +-inf, 0/0 is NaN, no exception
FDiv(x, y) ==
    IF IsNaN(y) THEN NaN
    ELSE IF y[1] < 0 THEN FMul(x, <<-y[2], -y[1]>>)
    ELSE FMul(x, <<y[2], y[1]>>)

\* x > y on floats; every comparison with NaN is false
FGt(x, y) ==
    /\ ~IsNaN(x)
    /\ ~IsNaN(y)
    /\ IF IsFinite(x) /\ IsFinite(y) THEN x[1] * y[2] > y[1] * x[2]
       ELSE IF IsFinite(x) THEN y = NegInf
       ELSE IF IsFinite(y) THEN x = PosInf
       ELSE x = PosInf /\ y = NegInf

FGe(x, y) == ~IsNaN(x) /\ ~IsNaN(y) /\ (x = y \/ FGt(x, y))

\* pandas sum with skipna=True: NaN entries are skipped, an empty sum is 0.0
RECURSIVE SumSkipNa(_)
SumSkipNa(ws) ==
    IF ws = <<>> THEN Zero
    ELSE IF IsNaN(ws[Len(ws)]) THEN SumSkipNa(SubSeq(ws, 1, Len(ws) - 1))
    ELSE FAdd(SumSkipNa(SubSeq(ws, 1, Len(ws) - 1)), ws[Len(ws)])

\* ------------------------------------------------------------ Python strings
\* the printable ASCII characters in code-point order, from the space (32);
\* the double quote, the backslash and the backtick are named by their code
Ascii ==
    <<" ", "!", "chr34", "#", "$", "%", "&", "'", "(", ")", "*", "+", ",", "-", ".", "/",
      "0", "1", "2", "3", "4", "5", "6", "7", "8", "9", ":", ";", "<", "=", ">", "?",
      "@", "A", "B", "C", "D", "E", "F", "G", "H", "I", "J", "K", "L", "M", "N", "O",
      "P", "Q", "R", "S", "T", "U", "V", "W", "X", "Y", "Z", "[", "chr92", "]", "^", "_",
      "chr96", "a", "b", "c", "d", "e", "f", "g", "h", "i", "j", "k", "l", "m", "n", "o",
      "p", "q", "r", "s", "t", "u", "v", "w", "x", "y", "z", "{", "|", "}", "~">>

Chars == {Ascii[i] : i \in 1..Len(Ascii)}

\* ord(c)
Ord == [c \in Chars |-> 31 + CHOOSE i \in 1..Len(Ascii) : Ascii[i] = c]

Chr(n) == Ascii[n - 31]

IsUpperChar(c) == Ord[c] >= 65 /\ Ord[c] <= 90
IsLowerChar(c) == Ord[c] >= 97 /\ Ord[c] <= 122
IsDigitChar(c) == Ord[c] >= 48 /\ Ord[c] <= 57
IsAlnumChar(c) == IsUpperChar(c) \/ IsLowerChar(c) \/ IsDigitChar(c)

\* str.lower() and str.upper()
Lower(s) == [i \in 1..Len(s) |-> IF IsUpperChar(s[i]) THEN Chr(Ord[s[i]] + 32) ELSE s[i]]
Upper(s) == [i \in 1..Len(s) |-> IF IsLowerChar(s[i]) THEN Chr(Ord[s[i]] - 32) ELSE s[i]]

\* str.strip(): leading and trailing whitespace removed
RECURSIVE Strip(_)
Strip(s) ==
    IF s = <<>> THEN s
    ELSE IF s[1] = " " THEN Strip(Tail(s))
    ELSE IF s[Len(s)] = " " THEN Strip(SubSeq(s, 1, Len(s) - 1))
    ELSE s

\* sub in s (str.contains on a pattern without metacharacters)
Contains(s, sub) ==
    \E i \in 0..(Len(s) - Len(sub)) : SubSeq(s, i + 1, i + Len(sub)) = sub

\* s < t in Python's string ordering (code points, then length)
RECURSIVE StrLt(_, _)
StrLt(s, t) ==
    IF t = <<>> THEN FALSE
    ELSE IF s = <<>> THEN TRUE
    ELSE IF s[1] = t[1] THEN StrLt(Tail(s), Tail(t))
    ELSE Ord[s[1]] < Ord[t[1]]

\* --------------------------------------------------------- string literals
str_nan == <<"n", "a", "n">>
str_None == <<"N", "o", "n", "e">>
str_azionario == <<"a", "z", "i", "o", "n", "a", "r", "i", "o">>
str_obbligazionario == <<"o", "b", "b", "l", "i", "g", "a", "z", "i", "o", "n", "a", "r", "i", "o">>
str_bond == <<"b", "o", "n", "d">>
str_Manual == <<"M", "a", "n", "u", "a", "l">>
str_UNKNOWN == <<"U", "N", "K", "N", "O", "W", "N">>
str_Unknown == <<"U", "n", "k", "n", "o", "w", "n">>
str_Other == <<"O", "t", "h", "e", "r">>

\* ------------------------------------------------ pandas.read_csv, to_numeric
\* the cell texts read_csv reads as missing (its default na_values), as far as
\* the cells of the model go
NaStrings == {<<>>, <<"N", "A">>, <<"n", "a", "n">>, <<"N", "a", "N">>, <<"n", "u", "l", "l">>, <<"N", "/", "A">>}

RECURSIVE DigitsVal(_)
DigitsVal(s) ==
    IF s = <<>> THEN 0
    ELSE 10 * DigitsVal(SubSeq(s, 1, Len(s) - 1)) + (Ord[s[Len(s)]] - 48)

RECURSIVE Pow10(_)
Pow10(k) == IF k = 0 THEN 1 ELSE 10 * Pow10(k - 1)

AllDigits(s) == \A i \in 1..Len(s) : IsDigitChar(s[i])

Unsigned(s) == IF s # <<>> /\ s[1] \in {"-", "+"} THEN Tail(s) ELSE s

\* position of the first "." of s, 0 when there is none
DotAt(s) ==
    IF \E i \in 1..Len(s) : s[i] = "."
    THEN CHOOSE i \in 1..Len(s) : s[i] = "." /\ \A j \in 1..(i - 1) : s[j] # "."
    ELSE 0

\* s is a decimal literal: sign, digits, at most one "." (no exponent in the model)
IsNumberText(s) ==
    LET u == Unsigned(s)
        p == DotAt(u)
        int == IF p = 0 THEN u ELSE SubSeq(u, 1, p - 1)
        frac == IF p = 0 THEN <<>> ELSE SubSeq(u, p + 1, Len(u))
    IN  AllDigits(int) /\ AllDigits(frac) /\ Len(int) + Len(frac) > 0

\* the float a decimal literal denotes
ParseNumber(s) ==
    LET u == Unsigned(s)
        p == DotAt(u)
        int == IF p = 0 THEN u ELSE SubSeq(u, 1, p - 1)
        frac == IF p = 0 THEN <<>> ELSE SubSeq(u, p + 1, Len(u))
        mag == Q(DigitsVal(int) * Pow10(Len(frac)) + DigitsVal(frac), Pow10(Len(frac)))
    IN  IF s # <<>> /\ s[1] = "-" THEN FMul(<<-1, 1>>, mag) ELSE mag

\* pd.to_numeric(errors='coerce') on one string
ToNumericCoerce(s) == IF IsNumberText(s) THEN ParseNumber(s) ELSE NaN

\* str.replace(old, new, regex=False) for a one-character old
ReplaceChar(s, old, new) ==
    LET RECURSIVE R(_)
        R(t) == IF t = <<>> THEN <<>>
                ELSE (IF t[1] = old THEN new ELSE <<t[1]>>) \o R(Tail(t))
    IN  R(s)

\* a cell of a text column after read_csv and .astype(str): a missing cell is
\* the float NaN, whose str() is "nan"
AsStr(cell) == IF cell \in NaStrings THEN str_nan ELSE cell

\* ------------------------------------------------- CSVProcessor.parse_holdings
\* A cleaned CSV as read_csv sees it: the canonical columns its header lacks
\* (COLUMN_MAPPING already applied to the header names) and its data rows, each
\* cell the cell's text.
RequiredCols == {"ticker", "name", "sector", "country", "asset_class", "weight"}
StrCols == {"ticker", "name", "sector", "country", "asset_class"}

\* read_csv's dtype of the weight column: object as soon as one cell is no number
\* (a column the header lacks is filled with None, object as well)
WeightIsObject(table) ==
    \/ "weight" \in table.missing
    \/ \E i \in 1..Len(table.rows) :
          /\ table.rows[i].weight \notin NaStrings
          /\ ~IsNumberText(table.rows[i].weight)

\* .fillna(0.0)
FillNa(x) == IF IsNaN(x) THEN Zero ELSE x

\* European format: every "." removed, then "," turned into "."
EuropeanText(s) == ReplaceChar(ReplaceChar(s, ".", <<>>), ",", <<".">>)

\* the numeric weight of one raw row: the conversion and its fillna(0.0) run
\* on an object column only; a numeric column keeps what read_csv read, NaN
\* for a missing cell
WeightValue(table, r) ==
    IF "weight" \in table.missing THEN FillNa(ToNumericCoerce(EuropeanText(str_None)))
    ELSE IF WeightIsObject(table) THEN FillNa(ToNumericCoerce(EuropeanText(AsStr(r.weight))))
    ELSE IF r.weight \in NaStrings THEN NaN
    ELSE ParseNumber(r.weight)

\* df[col].astype(str).str.strip() for one row
StrValue(table, r, col) ==
    IF col \in table.missing THEN Strip(str_None) ELSE Strip(AsStr(r[col]))

\* the row after numeric conversion and string normalization
ConvertRow(table, r) ==
    [ticker |-> StrValue(table, r, "ticker"),
     name |-> StrValue(table, r, "name"),
     sector |-> StrValue(table, r, "sector"),
     country |-> StrValue(table, r, "country"),
     asset_class |-> StrValue(table, r, "asset_class"),
     weight |-> WeightValue(table, r)]

\* df[df["name"] != "nan"]
KeepRow(row) == row.name # str_nan

Weights(rows) == [i \in 1..Len(rows) |-> rows[i].weight]

\* "Normalize to 1 (100%)"
Normalize(rows) ==
    LET total_weight == SumSkipNa(Weights(rows))
    IN  IF FGt(total_weight, Zero)
        THEN [i \in 1..Len(rows) |->
                 [rows[i] EXCEPT !.weight = FDiv(rows[i].weight, total_weight)]]
        ELSE rows

ConvertedRows(table) == [i \in 1..Len(table.rows) |-> ConvertRow(table, table.rows[i])]

ParseHoldings(table) == Normalize(SelectSeq(ConvertedRows(table), KeepRow))

\* ------------------------------------------ PortfolioManager.get_aggregated_views
\* tuples of strings in Python's tuple ordering
RECURSIVE KeyLt(_, _)
KeyLt(k, l) ==
    IF l = <<>> THEN FALSE
    ELSE IF k = <<>> THEN TRUE
    ELSE IF k[1] = l[1] THEN KeyLt(Tail(k), Tail(l))
    ELSE StrLt(k[1], l[1])

\* the group key of a row: the values of the grouping columns
KeyOf(row, group_cols) == [i \in 1..Len(group_cols) |-> row[group_cols[i]]]

\* groupby(sort=True): the distinct keys in ascending order
RECURSIVE SortedKeys(_)
SortedKeys(keys) ==
    IF keys = {} THEN <<>>
    ELSE LET least == CHOOSE k \in keys : \A l \in keys : l = k \/ KeyLt(k, l)
         IN  <<least>> \o SortedKeys(keys \ {least})

\* the values of column col over the rows of one group, in row order
GroupValues(rows, group_cols, key, col) ==
    LET InGroup(row) == KeyOf(row, group_cols) = key
        members == SelectSeq(rows, InGroup)
    IN  [i \in 1..Len(members) |-> members[i][col]]

\* the distinct keys of the rows in their order of first appearance
RECURSIVE FirstKeys(_, _)
FirstKeys(rows, group_cols) ==
    IF rows = <<>> THEN <<>>
    ELSE LET before == FirstKeys(SubSeq(rows, 1, Len(rows) - 1), group_cols)
             key == KeyOf(rows[Len(rows)], group_cols)
         IN  IF \E i \in 1..Len(before) : before[i] = key THEN before
             ELSE Append(before, key)

\* a mutated groupby (sort=False): one row per key, keys in order of appearance
GroupSumUnsorted(rows, group_cols, col) ==
    LET keys == FirstKeys(rows, group_cols)
    IN  [i \in 1..Len(keys) |->
            [key |-> keys[i],
             value |-> SumSkipNa(GroupValues(rows, group_cols, keys[i], col))]]

\* groupby(group_cols)[col].sum().reset_index(): one row per key, keys ascending
GroupSum(rows, group_cols, col) ==
    LET keys == SortedKeys({KeyOf(rows[i], group_cols) : i \in 1..Len(rows)})
    IN  [i \in 1..Len(keys) |->
            [key |-> keys[i],
             value |-> SumSkipNa(GroupValues(rows, group_cols, keys[i], col))]]

\* the sort value of a row: a grouped row's sum, or a ledger row's column
SortValue(row, col) == IF "value" \in DOMAIN row THEN row.value ELSE row[col]

\* sort_values is called without kind, so it sorts with kind='quicksort', which
\* promises no order for equal values: what a build does with them is fixed by
\* its numpy (insertion sort or a vectorized network).  Two of the orders a
\* build can produce: equal values kept in their order of arrival, or reversed.
TieOrders == {"kept", "reversed"}

VARIABLE tie_order  \* the order this build's quicksort leaves equal values in

\* x placed behind every row whose value is greater than its own, and behind
\* (kept) or before (reversed) the rows of the same value
RECURSIVE InsertDesc(_, _, _)
InsertDesc(sorted, x, col) ==
    IF sorted = <<>> THEN <<x>>
    ELSE IF FGt(SortValue(x, col), SortValue(sorted[1], col)) THEN <<x>> \o sorted
    ELSE IF tie_order = "reversed" /\ SortValue(x, col) = SortValue(sorted[1], col)
    THEN <<x>> \o sorted
    ELSE <<sorted[1]>> \o InsertDesc(Tail(sorted), x, col)

RECURSIVE SortDescending(_, _)
SortDescending(rows, col) ==
    IF rows = <<>> THEN <<>>
    ELSE InsertDesc(SortDescending(SubSeq(rows, 1, Len(rows) - 1), col), rows[Len(rows)], col)

\* sort_values(col, ascending=False): descending, NaN rows last (na_position
\* 'last') in their order of arrival, equal values in the build's tie_order
SortValues(rows, col) ==
    LET IsNa(row) == IsNaN(SortValue(row, col))
        NotNa(row) == ~IsNaN(SortValue(row, col))
    IN  SortDescending(SelectSeq(rows, NotNa), col) \o SelectSeq(rows, IsNa)

\* group_sort(dataframe, group_cols)
group_sort(dataframe, group_cols) == SortValues(GroupSum(dataframe, group_cols, "weight"), "weight")

\* df["asset_class"].str.lower() == "azionario"
IsEquity(row) == Lower(row.asset_class) = str_azionario

\* a mutated bond test: the second alternative of the pattern is lost
IsBondFirstAlternative(row) == Contains(Lower(row.asset_class), str_obbligazionario)

\* df["asset_class"].str.lower().str.contains("obbligazionario|bond")
IsBond(row) ==
    \/ Contains(Lower(row.asset_class), str_obbligazionario)
    \/ Contains(Lower(row.asset_class), str_bond)

\* a mutated normalization: weight_norm is the weight itself
WithWeightNormCopied(subset) ==
    [i \in 1..Len(subset) |->
        [ticker |-> subset[i].ticker, name |-> subset[i].name,
         sector |-> subset[i].sector, country |-> subset[i].country,
         asset_class |-> subset[i].asset_class, weight |-> subset[i].weight,
         weight_norm |-> subset[i].weight]]

\* subset["weight_norm"] = subset["weight"] / subset["weight"].sum(); on an empty
\* subset the else branch adds the (empty) column
WithWeightNorm(subset) ==
    [i \in 1..Len(subset) |->
        [ticker |-> subset[i].ticker, name |-> subset[i].name,
         sector |-> subset[i].sector, country |-> subset[i].country,
         asset_class |-> subset[i].asset_class, weight |-> subset[i].weight,
         weight_norm |-> FDiv(subset[i].weight, SumSkipNa(Weights(subset)))]]

equities(df) == WithWeightNorm(SelectSeq(df, IsEquity))
bonds(df) == WithWeightNorm(SelectSeq(df, IsBond))

NormView(subset, group_cols) ==
    SortValues(GroupSum(subset, group_cols, "weight_norm"), "weight_norm")

ViewNames ==
    {"global_by_asset", "global_by_country", "global_by_sector", "equity_by_stock",
     "equity_by_sector", "equity_by_country", "bond_by_type", "bond_by_country",
     "all_holdings"}

\* the empty dict returned for an empty ledger
NoViews == [n \in {} |-> <<>>]

\* the dict of the nine views of a ledger df (self.holdings.copy())
BuildViews(df) ==
    [n \in ViewNames |->
        CASE n = "global_by_asset" -> group_sort(df, <<"asset_class">>)
          [] n = "global_by_country" -> group_sort(df, <<"country">>)
          [] n = "global_by_sector" -> group_sort(df, <<"sector">>)
          [] n = "equity_by_stock" -> NormView(equities(df), <<"ticker", "name">>)
          [] n = "equity_by_sector" -> NormView(equities(df), <<"sector">>)
          [] n = "equity_by_country" -> NormView(equities(df), <<"country">>)
          [] n = "bond_by_type" -> NormView(bonds(df), <<"sector">>)
          [] n = "bond_by_country" -> NormView(bonds(df), <<"country">>)
          [] n = "all_holdings" -> SortValues(df, "weight")]

\* a mutated get_aggregated_views: the test of self.holdings.empty is lost
get_aggregated_views_unguarded(df) == BuildViews(df)

\* get_aggregated_views on the ledger df: {} when it is empty
get_aggregated_views(df) == IF df = <<>> THEN NoViews ELSE BuildViews(df)

\* ----------------------------------------------------- files and the web site
\* A holdings file is a sequence of lines.  A line's kind says which of the
\* code's tests it passes: "header" matches header_pattern (^\s*Ticker dell),
\* "disclaimer" starts with "Questo documento" or "The content", "data" is a
\* record of the table (row holds its cells), "ragged" is a record with more
\* fields than the header (read_csv raises ParserError), "text" is a blank line.
\* A header line's missing are the canonical columns the header does not name.
NoRow == [ticker |-> <<>>, name |-> <<>>, sector |-> <<>>, country |-> <<>>,
          asset_class |-> <<>>, weight |-> <<>>]

TextLine == [kind |-> "text", missing |-> {}, row |-> NoRow]
HeaderLine(missing) == [kind |-> "header", missing |-> missing, row |-> NoRow]
DataLine(row) == [kind |-> "data", missing |-> {}, row |-> row]
RaggedLine == [kind |-> "ragged", missing |-> {}, row |-> NoRow]
DisclaimerLine == [kind |-> "disclaimer", missing |-> {}, row |-> NoRow]

\* a path of the file system: absent, or a file with its lines
NoFile == [exists |-> FALSE, lines |-> <<>>]
File(lines) == [exists |-> TRUE, lines |-> lines]

\* index of the first line of kind k, 0 when there is none
FirstOfKind(lines, k) ==
    IF \E i \in 1..Len(lines) : lines[i].kind = k
    THEN CHOOSE i \in 1..Len(lines) :
            lines[i].kind = k /\ \A j \in 1..(i - 1) : lines[j].kind # k
    ELSE 0

\* CSVProcessor.clean_csv: ok is FALSE when it raises ("Header not found"), else
\* lines is what it writes: from the header line up to the first disclaimer
clean_csv(lines) ==
    LET start_index == FirstOfKind(lines, "header")
        cleaned_lines == SubSeq(lines, start_index, Len(lines))
        d == FirstOfKind(cleaned_lines, "disclaimer")
        end_index == IF d = 0 THEN Len(cleaned_lines) ELSE d - 1
    IN  IF start_index = 0 THEN [ok |-> FALSE, lines |-> <<>>]
        ELSE [ok |-> TRUE, lines |-> SubSeq(cleaned_lines, 1, end_index)]

\* pd.read_csv on a cleaned file (its first line is the header): ok is FALSE when
\* it raises, else table is the frame read; blank lines are skipped
read_csv(lines) ==
    LET IsData(l) == l.kind = "data"
        records == SelectSeq(Tail(lines), IsData)
    IN  IF \E i \in 2..Len(lines) : lines[i].kind = "ragged"
        THEN [ok |-> FALSE, table |-> [missing |-> {}, rows |-> <<>>]]
        ELSE [ok |-> TRUE,
              table |-> [missing |-> lines[1].missing,
                         rows |-> [i \in 1..Len(records) |-> records[i].row]]]

\* str.strip("/")
RECURSIVE StripSlash(_)
StripSlash(s) ==
    IF s = <<>> THEN s
    ELSE IF s[1] = "/" THEN StripSlash(Tail(s))
    ELSE IF s[Len(s)] = "/" THEN StripSlash(SubSeq(s, 1, Len(s) - 1))
    ELSE s

\* re.sub(r"[^A-Za-z0-9]+", "_", s): every maximal run of other characters
\* becomes one "_"
RECURSIVE SubNonAlnum(_)
SubNonAlnum(s) ==
    IF s = <<>> THEN <<>>
    ELSE IF IsAlnumChar(s[1]) THEN <<s[1]>> \o SubNonAlnum(Tail(s))
    ELSE IF Len(s) > 1 /\ ~IsAlnumChar(s[2]) THEN SubNonAlnum(Tail(s))
    ELSE <<"_">> \o SubNonAlnum(Tail(s))

\* etf_name: the stem of the raw file and of the cleaned file of a URL; url is
\* urlparse(url), a record of the URL's netloc and path
etf_name(url) == SubNonAlnum(StripSlash(url.path))

\* ------------------------------------------- PortfolioManager.fetch_and_process
\* What the site answers for a URL during one call: page is "ok" when the ETF
\* page is served and holds the holdings link, "nolink" when get_csv_url
\* raises (the page is not served, or no link carries SEARCH_TEXT_IT);
\* download is FALSE when the request of the CSV raises; lines is the CSV served.
Answer(page, download, lines) == [page |-> page, download |-> download, lines |-> lines]

\* item.get(field, default)
ItemGet(item, field, default) == IF field \in DOMAIN item THEN item[field] ELSE default

\* ISharesDownloader.get_csv_url: does it return (TRUE) or raise (FALSE)
get_csv_url(answer) == answer.page = "ok"

\* ISharesDownloader.download_file: an existing save_path is returned as it is,
\* else the CSV is requested and written; ok is FALSE when the request raises
download_file(answer, save_path) ==
    IF save_path.exists THEN [ok |-> TRUE, file |-> save_path]
    ELSE IF ~answer.download THEN [ok |-> FALSE, file |-> save_path]
    ELSE [ok |-> TRUE, file |-> File(answer.lines)]

\* the branch of the try block that fetches: TRUE when get_csv_url and
\* download_file are called for a raw file csv_path
MustFetch(skip_download, csv_path) == ~skip_download \/ ~csv_path.exists

\* a mutated scaling: the allocation is added to the weights
ScaleAdditive(rows, allocation_weight) ==
    [i \in 1..Len(rows) |->
        [rows[i] EXCEPT !.weight = FAdd(rows[i].weight, allocation_weight)]]

\* df["weight"] = df["weight"] * allocation_weight
Scale(rows, allocation_weight) ==
    [i \in 1..Len(rows) |->
        [rows[i] EXCEPT !.weight = FMul(rows[i].weight, allocation_weight)]]

\* the one-row frame of a manual asset
ManualFrame(item) ==
    <<[ticker |-> Upper(ItemGet(item, "name", str_UNKNOWN)),
       name |-> ItemGet(item, "name", str_Unknown),
       asset_class |-> ItemGet(item, "asset_class", str_Other),
       sector |-> str_Manual,
       country |-> str_Manual,
       weight |-> ItemGet(item, "weight", Zero)]>>

\* One pass of the loop body for a URL item.  st holds the raw and processed
\* directories, the frames appended so far and the outcome of every item so far.
\* The stages run in the order of the try block; the first that raises ends the
\* item (the except clause logs it), with the files written before it kept.
ProcessUrlItem(st, item, skip_download, served) ==
    LET stem == etf_name(item.url)
        csv_path == st.raw[stem]
        fetch == MustFetch(skip_download, csv_path)
        answer == served[item.url]
        found == ~fetch \/ get_csv_url(answer)
        dl == IF fetch /\ found THEN download_file(answer, csv_path)
              ELSE [ok |-> TRUE, file |-> csv_path]
        raw1 == [st.raw EXCEPT ![stem] = dl.file]
        cl == clean_csv(dl.file.lines)
        processed1 == [st.processed EXCEPT ![stem] = File(cl.lines)]
        rd == read_csv(cl.lines)
        df == Scale(ParseHoldings(rd.table), ItemGet(item, "weight", Zero))
        Failed(stage, raw, processed) ==
            [raw |-> raw, processed |-> processed, data_frames |-> st.data_frames,
             outcome |-> Append(st.outcome, [status |-> "failed", stage |-> stage, rows |-> 0])]
    IN  IF ~found THEN Failed("lookup", st.raw, st.processed)
        ELSE IF ~dl.ok THEN Failed("download", st.raw, st.processed)
        ELSE IF ~cl.ok THEN Failed("clean", raw1, st.processed)
        ELSE IF ~rd.ok THEN Failed("parse", raw1, processed1)
        ELSE [raw |-> raw1, processed |-> processed1,
              data_frames |-> Append(st.data_frames, df),
              outcome |-> Append(st.outcome,
                                 [status |-> "parsed", stage |-> "none", rows |-> Len(df)])]

ProcessManualItem(st, item) ==
    [raw |-> st.raw, processed |-> st.processed,
     data_frames |-> Append(st.data_frames, ManualFrame(item)),
     outcome |-> Append(st.outcome, [status |-> "manual", stage |-> "none", rows |-> 1])]

\* a mutated loop body: no try block, the first failing item ends the loop
\* with the frames appended so far
RECURSIVE ProcessItemsUncaught(_, _, _, _)
ProcessItemsUncaught(st, cfg, skip_download, served) ==
    IF cfg = <<>> THEN st
    ELSE LET item == Head(cfg)
             st1 == IF "url" \in DOMAIN item
                    THEN ProcessUrlItem(st, item, skip_download, served)
                    ELSE ProcessManualItem(st, item)
         IN  IF st1.outcome[Len(st1.outcome)].status = "failed" THEN st1
             ELSE ProcessItemsUncaught(st1, Tail(cfg), skip_download, served)

\* for item in self.config
RECURSIVE ProcessItems(_, _, _, _)
ProcessItems(st, cfg, skip_download, served) ==
    IF cfg = <<>> THEN st
    ELSE LET item == Head(cfg)
             st1 == IF "url" \in DOMAIN item
                    THEN ProcessUrlItem(st, item, skip_download, served)
                    ELSE ProcessManualItem(st, item)
         IN  ProcessItems(st1, Tail(cfg), skip_download, served)

\* pd.concat(data_frames, ignore_index=True)
RECURSIVE Concat(_)
Concat(frames) == IF frames = <<>> THEN <<>> ELSE Head(frames) \o Concat(Tail(frames))

\* ================================================================== state
VARIABLES
    raw_dir,        \* data/raw: file stem -> file
    processed_dir,  \* data/processed: file stem -> cleaned file
    config,         \* PortfolioManager.config
    holdings,       \* PortfolioManager.holdings, the rows of the ledger
    loaded,         \* FALSE while holdings is the list [] set by __init__
    ret,            \* what the last call returned
    call,           \* the last call: its name, arguments and the site's answers
    outcome,        \* per item of the last fetch_and_process: what became of it
    table,          \* the argument of parse_holdings (the frame read_csv read)
    parsed          \* the frame parse_holdings returned

vars == <<raw_dir, processed_dir, config, holdings, loaded, ret, call, outcome, table, parsed,
          tie_order>>

\* ------------------------------------------------------------------ inputs
Url1 == [netloc |-> <<"w", "w", "w", ".", "i", "s", "h", "a", "r", "e", "s", ".", "c", "o", "m">>, path |-> <<"/", "i", "t", "/", "p", "r", "o", "d", "o", "t", "t", "i", "/", "2", "5", "1", "8", "5", "0", "/">>]
Url2 == [netloc |-> <<"w", "w", "w", ".", "i", "s", "h", "a", "r", "e", "s", ".", "c", "o", "m">>, path |-> <<"/", "i", "t", "/", "p", "r", "o", "d", "o", "t", "t", "i", "/", "2", "5", "1", "7", "9", "5", "/">>]
Urls == {Url1, Url2}
Stems == {etf_name(u) : u \in Urls}

Header == HeaderLine({})

Row(ticker, name, sector, country, asset_class, weight) ==
    [ticker |-> ticker, name |-> name, sector |-> sector, country |-> country,
     asset_class |-> asset_class, weight |-> weight]

RawApple == Row(<<"A", "A", "P", "L">>, <<"A", "p", "p", "l", "e">>, <<"T", "e", "c", "h">>, <<"U", "S">>, <<"A", "z", "i", "o", "n", "a", "r", "i", "o">>, <<"6", "0", ",", "0">>)
RawMicrosoft == Row(<<"M", "S", "F", "T">>, <<"M", "i", "c", "r", "o", "s", "o", "f", "t">>, <<"T", "e", "c", "h">>, <<"U", "S">>, <<"A", "z", "i", "o", "n", "a", "r", "i", "o">>, <<"4", "0", ",", "0">>)
RawBtp == Row(<<"B", "T", "P">>, <<"B", "t", "p", " ", "2", "0", "3", "0">>, <<"T", "r", "e", "a", "s", "u", "r", "y">>, <<"I", "T">>, <<"O", "b", "b", "l", "i", "g", "a", "z", "i", "o", "n", "a", "r", "i", "o", " ", "G", "o", "v", "e", "r", "n", "a", "t", "i", "v", "o">>, <<"1", "0", "0">>)
RawCash == Row(<<"E", "U", "R">>, <<"E", "u", "r", " ", "C", "a", "s", "h">>, <<"C", "a", "s", "h">>, <<"I", "T">>, <<"O", "t", "h", "e", "r">>, <<"-", "2", "5">>)
RawBlank == Row(<<>>, <<>>, <<>>, <<>>, <<>>, <<>>)

\* the CSV files the site may serve
FileEquity == <<TextLine, Header, DataLine(RawApple), DataLine(RawMicrosoft), DisclaimerLine>>
FileBond == <<Header, DataLine(RawBtp), DataLine(RawCash), DataLine(RawBlank)>>
FileNoHeader == <<TextLine, DataLine(RawApple), DisclaimerLine>>
FileRagged == <<TextLine, Header, DataLine(RawApple), RaggedLine>>

SiteAnswers ==
    {Answer("nolink", FALSE, <<>>), Answer("ok", FALSE, <<>>),
     Answer("ok", TRUE, FileEquity), Answer("ok", TRUE, FileBond),
     Answer("ok", TRUE, FileNoHeader), Answer("ok", TRUE, FileRagged)}

\* the answer recorded for a URL the call does not ask for
Unasked == Answer("unasked", FALSE, <<>>)

\* portfolio items: an ETF by URL, or a manual asset
Items ==
    {[url |-> Url1, weight |-> Q(4, 5)],
     [url |-> Url2, weight |-> Q(1, 2)],
     [name |-> <<"C", "a", "s", "h">>, asset_class |-> <<"O", "t", "h", "e", "r">>, weight |-> Q(1, 5)]}

SeqsUpTo(S, n) == UNION {[1..k -> S] : k \in 0..n}

Configs == SeqsUpTo(Items, MaxComponents)

UrlsOf(cfg) == {cfg[i].url : i \in {j \in 1..Len(cfg) : "url" \in DOMAIN cfg[j]}}

\* the site's answers during one call: one per URL of the config
AnswersFor(cfg, u) == IF u \in UrlsOf(cfg) THEN SiteAnswers ELSE {Unasked}

NoCall == [op |-> "none", skip_download |-> FALSE, served |-> [u \in Urls |-> Unasked], n |-> 0]
NoReturn == [views |-> NoViews, error |-> "none"]
NoTable == [missing |-> {}, rows |-> <<>>]

\* ================================================================ the program
\* fetch_and_process from the directories raw and processed: the directories
\* after it, the frames appended and the outcome of every item
fetch_and_process(cfg, skip_download, served, raw, processed) ==
    ProcessItems([raw |-> raw, processed |-> processed, data_frames |-> <<>>,
                  outcome |-> <<>>],
                 cfg, skip_download, served)

\* a mutated copy: the ledger is sorted in place while the views are built
HoldingsSortedInPlace(h) == SortValues(h, "weight")

\* self.holdings after get_aggregated_views: it works on self.holdings.copy()
\* and on copies of the subsets
HoldingsAfterViews(h) == h

Init ==
    /\ raw_dir = [s \in Stems |-> NoFile]
    /\ processed_dir = [s \in Stems |-> NoFile]
    /\ config = <<>>
    /\ holdings = <<>>
    /\ loaded = FALSE
    /\ ret = NoReturn
    /\ call = NoCall
    /\ outcome = <<>>
    /\ table = NoTable
    /\ parsed = <<>>
    /\ tie_order \in TieOrders

\* run_analysis(config, skip_download) on a miss of st.cache_data, called by a
\* run of the dashboard script: a manager is built, fetch_and_process and
\* get_aggregated_views run, (views, None) is returned; an exception of either
\* would be returned as (None, str(e)).  The manager's fields are those of the
\* manager local to the call, as they are when it returns.
RunAnalysis(cfg, skip_download, served) ==
    LET st == fetch_and_process(cfg, skip_download, served, raw_dir, processed_dir)
        ledger == Concat(st.data_frames)
    IN  /\ call.op = "none"
        /\ raw_dir' = st.raw
        /\ processed_dir' = st.processed
        /\ config' = cfg
        /\ holdings' = HoldingsAfterViews(ledger)
        /\ loaded' = TRUE
        /\ ret' = [views |-> get_aggregated_views(ledger), error |-> "None"]
        /\ call' = [op |-> "run_analysis", skip_download |-> skip_download,
                    served |-> served, n |-> 1]
        /\ outcome' = st.outcome
        /\ UNCHANGED <<table, parsed, tie_order>>

\* The script run ends (the views are rendered) and the next run starts, by a
\* widget or st.rerun(): the manager and the views of the run are gone, the
\* files under data/ stay.
ScriptRerun ==
    /\ call.op = "run_analysis"
    /\ config' = <<>>
    /\ holdings' = <<>>
    /\ loaded' = FALSE
    /\ ret' = NoReturn
    /\ call' = NoCall
    /\ outcome' = <<>>
    /\ UNCHANGED <<raw_dir, processed_dir, table, parsed, tie_order>>

Next ==
    \/ \E cfg \in Configs, skip_download \in BOOLEAN :
          \E a1 \in AnswersFor(cfg, Url1), a2 \in AnswersFor(cfg, Url2) :
             RunAnalysis(cfg, skip_download, [u \in Urls |-> IF u = Url1 THEN a1 ELSE a2])
    \/ ScriptRerun

Spec == Init /\ [][Next]_vars

\* ------------------------------------------- get_aggregated_views on a ledger
\* the rows a ledger may hold
LedgerSecurities ==
    {<<<<"A", "A", "P", "L">>, <<"A", "p", "p", "l", "e">>, <<"T", "e", "c", "h">>, <<"U", "S">>>>, <<<<"E", "N", "I">>, <<"E", "n", "i">>, <<"E", "n", "e", "r", "g", "y">>, <<"I", "T">>>>}
LedgerClasses == {<<"A", "z", "i", "o", "n", "a", "r", "i", "o">>, <<"C", "o", "r", "p", "o", "r", "a", "t", "e", " ", "B", "o", "n", "d">>}
LedgerWeights == {Q(-1, 2), Zero, Q(1, 2)}

\* equities of every weight, bonds of the weights that are not negative
LedgerRows ==
    {r \in {Row(s[1], s[2], s[3], s[4], a, w) :
               s \in LedgerSecurities, a \in LedgerClasses, w \in LedgerWeights} :
        r.asset_class = <<"A", "z", "i", "o", "n", "a", "r", "i", "o">> \/ FGe(r.weight, Zero)}

Ledgers == SeqsUpTo(LedgerRows, MaxLedgerRows)

\* a manager whose fetch_and_process has returned (loaded), or a new one
InitViews ==
    /\ raw_dir = [s \in Stems |-> NoFile]
    /\ processed_dir = [s \in Stems |-> NoFile]
    /\ config = <<>>
    /\ loaded \in BOOLEAN
    /\ holdings \in (IF loaded THEN Ledgers ELSE {<<>>})
    /\ ret = NoReturn
    /\ call = NoCall
    /\ outcome = <<>>
    /\ table = NoTable
    /\ parsed = <<>>
    /\ tie_order \in TieOrders

\* manager.get_aggregated_views(); on a new manager self.holdings is a list and
\* .empty raises AttributeError
GetAggregatedViews ==
    /\ call.n < MaxCalls
    /\ ret' = IF loaded
              THEN [views |-> get_aggregated_views(holdings), error |-> "None"]
              ELSE [views |-> NoViews, error |-> "AttributeError"]
    /\ holdings' = IF loaded THEN HoldingsAfterViews(holdings) ELSE holdings
    /\ call' = [NoCall EXCEPT !.op = "get_aggregated_views", !.n = call.n + 1]
    /\ UNCHANGED <<raw_dir, processed_dir, config, loaded, outcome, table, parsed, tie_order>>

NextViews == GetAggregatedViews

SpecViews == InitViews /\ [][NextViews]_vars

\* ------------------------------------------------- parse_holdings on a table
RawNames == {<<"A", "p", "p", "l", "e">>, <<" ", "E", "n", "i", " ">>, <<>>, <<"N", "A">>, <<" ">>}
RawWeights == {<<"6", "0">>, <<"-", "6", "0">>, <<"0">>, <<"1", ",", "5">>, <<"1", ".", "5">>, <<"n", ".", "d", ".">>, <<>>}

RawRows == {Row(<<"T">>, n, <<"T", "e", "c", "h">>, <<"U", "S">>, <<"A", "z", "i", "o", "n", "a", "r", "i", "o">>, w) : n \in RawNames, w \in RawWeights}

Tables ==
    {[missing |-> m, rows |-> r] :
        m \in {{}, {"name"}, {"weight"}}, r \in SeqsUpTo(RawRows, MaxRawRows)}

InitParse ==
    /\ raw_dir = [s \in Stems |-> NoFile]
    /\ processed_dir = [s \in Stems |-> NoFile]
    /\ config = <<>>
    /\ holdings = <<>>
    /\ loaded = FALSE
    /\ ret = NoReturn
    /\ call = NoCall
    /\ outcome = <<>>
    /\ table \in Tables
    /\ parsed = <<>>
    /\ tie_order = "kept"

\* CSVProcessor.parse_holdings(clean_csv_path), from the frame read onwards
ParseHoldingsCall ==
    /\ call.op = "none"
    /\ parsed' = ParseHoldings(table)
    /\ call' = [NoCall EXCEPT !.op = "parse_holdings", !.n = 1]
    /\ UNCHANGED <<raw_dir, processed_dir, config, holdings, loaded, ret, outcome, table,
                   tie_order>>

NextParse == ParseHoldingsCall

SpecParse == InitParse /\ [][NextParse]_vars

\* ================================================================== claims
Returned == call.op = "run_analysis"

IsUrlItem(i) == "url" \in DOMAIN config[i]
FailedItem(i) == outcome[i].status = "failed"

\* the raw file of item i, as the directory holds it when the call returns
RawFileOf(i) == raw_dir[etf_name(config[i].url)]

\* the frame item i is due to contribute: nothing when it failed, its one row
\* when it is manual, else the parsed and scaled rows of its raw file
DueFrame(i) ==
    IF FailedItem(i) THEN <<>>
    ELSE IF IsUrlItem(i)
    THEN Scale(ParseHoldings(read_csv(clean_csv(RawFileOf(i).lines).lines).table),
               config[i].weight)
    ELSE ManualFrame(config[i])

\* a failure logged for item i has its cause in the site's answer or in the file
FailureHasCause(i) ==
    LET answer == call.served[config[i].url]
        stage == outcome[i].stage
    IN  /\ IsUrlItem(i)
        /\ stage = "lookup" => answer.page # "ok"
        /\ stage = "download" => answer.page = "ok" /\ ~answer.download /\ ~RawFileOf(i).exists
        /\ stage = "clean" => RawFileOf(i).exists /\ FirstOfKind(RawFileOf(i).lines, "header") = 0
        /\ stage = "parse" =>
              /\ RawFileOf(i).exists
              /\ \E k \in 1..Len(RawFileOf(i).lines) : RawFileOf(i).lines[k].kind = "ragged"

\* C1: in fetch_and_process a URL item whose link lookup, download, cleaning or
\* parsing fails contributes no rows, the rows of every other item are in the
\* ledger in item order, and run_analysis returns (views, None), with all nine
\* views, as soon as one item contributed a row.
C1_FailedItemSkipped ==
    Returned =>
        /\ Len(outcome) = Len(config)
        /\ \A i \in 1..Len(config) : FailedItem(i) => FailureHasCause(i)
        /\ holdings = Concat([i \in 1..Len(config) |-> DueFrame(i)])
        /\ ret.error = "None"
        /\ (\E i \in 1..Len(config) : ~FailedItem(i) /\ outcome[i].rows > 0)
              => DOMAIN ret.views = ViewNames

\* C1 witness: an item failed, another URL item contributed rows, the views are there
C1_Witness ==
    /\ Returned
    /\ \E i, j \in 1..Len(config) :
          /\ FailedItem(i)
          /\ outcome[i].stage = "clean"
          /\ outcome[j].status = "parsed"
          /\ outcome[j].rows = 2
    /\ Len(holdings) = 2
    /\ DOMAIN ret.views = ViewNames

\* C2: when the ledger ends up empty (no item, or no item contributed a row)
\* run_analysis returns ({}, None).
C2_EmptyLedgerNoViews ==
    Returned =>
        /\ (\A i \in 1..Len(config) : outcome[i].rows = 0) => holdings = <<>>
        /\ holdings = <<>> => ret = [views |-> NoViews, error |-> "None"]

\* C2 witness: two items, both failed, and ({}, None) returned
C2_Witness ==
    /\ Returned
    /\ Len(config) = 2
    /\ \A i \in 1..Len(config) : FailedItem(i)
    /\ ret = [views |-> NoViews, error |-> "None"]

\* the numeric weights of the rows parse_holdings keeps of a table, before it
\* normalizes them
KeptRawWeights(t) == Weights(SelectSeq(ConvertedRows(t), KeepRow))

\* a weight normalized within its source: divided by the source's total when
\* that total is positive
NormalizedWithin(w, total) == IF FGt(total, Zero) THEN FDiv(w, total) ELSE w

\* the weights item i is due to put in the ledger
DueWeights(i) ==
    IF FailedItem(i) THEN <<>>
    ELSE IF IsUrlItem(i)
    THEN LET raw == KeptRawWeights(read_csv(clean_csv(RawFileOf(i).lines).lines).table)
         IN  [k \in 1..Len(raw) |->
                 FMul(config[i].weight, NormalizedWithin(raw[k], SumSkipNa(raw)))]
    ELSE <<FMul(config[i].weight, One)>>

\* the normalized weight sum of the source of item i
SourceSum(i) ==
    IF IsUrlItem(i)
    THEN LET raw == KeptRawWeights(read_csv(clean_csv(RawFileOf(i).lines).lines).table)
         IN  IF FGt(SumSkipNa(raw), Zero) THEN One ELSE SumSkipNa(raw)
    ELSE One

RECURSIVE WeightedSourceSums(_)
WeightedSourceSums(n) ==
    IF n = 0 THEN Zero
    ELSE IF FailedItem(n) THEN WeightedSourceSums(n - 1)
    ELSE FAdd(WeightedSourceSums(n - 1), FMul(config[n].weight, SourceSum(n)))

CashAndFund ==
    <<[name |-> <<"C", "a", "s", "h">>, asset_class |-> <<"O", "t", "h", "e", "r">>, weight |-> Q(1, 5)],
      [url |-> Url1, weight |-> Q(4, 5)]>>

\* C3: every ledger row's weight is its item's allocation weight times the row's
\* weight normalized within its own source (1.0 for a manual asset), and the
\* total ledger weight is the sum over the items whose source was obtained of
\* allocation weight times the source's normalized weight sum; Cash 0.2 and a
\* fund 0.8 holding 60/40 give [0.2, 0.48, 0.32].
C3_WeightsScaledByAllocation ==
    Returned =>
        /\ Weights(holdings) = Concat([i \in 1..Len(config) |-> DueWeights(i)])
        /\ SumSkipNa(Weights(holdings)) = WeightedSourceSums(Len(config))
        /\ (config = CashAndFund /\ ~FailedItem(2) /\ RawFileOf(2) = File(FileEquity))
              => Weights(holdings) = <<Q(1, 5), Q(12, 25), Q(8, 25)>>

\* C3 witness: the example of the claim
C3_Witness ==
    /\ Returned
    /\ config = CashAndFund
    /\ Weights(holdings) = <<Q(1, 5), Q(12, 25), Q(8, 25)>>

\* ------------------------------------------------------------ parse_holdings
ParseReturned == call.op = "parse_holdings"

AllZero(ws) == \A i \in 1..Len(ws) : ws[i] = Zero

\* C4: for a non-empty raw table the weights parse_holdings returns sum to 1.0,
\* unless the raw total over the rows kept was 0, and then every weight is 0.
C4_SumOneOrAllZero ==
    (ParseReturned /\ table.rows # <<>>) =>
        IF SumSkipNa(KeptRawWeights(table)) = Zero
        THEN AllZero(Weights(parsed))
        ELSE SumSkipNa(Weights(parsed)) = One

\* ------------------------------------------------------ get_aggregated_views
ViewsReturned == call.op = "get_aggregated_views" /\ DOMAIN ret.views = ViewNames

Values(view) == [i \in 1..Len(view) |-> view[i].value]
Norms(subset) == [i \in 1..Len(subset) |-> subset[i].weight_norm]

EquityViews == {"equity_by_stock", "equity_by_sector", "equity_by_country"}
BondViews == {"bond_by_type", "bond_by_country"}

\* the weight_norm of a subset and of the views grouped from it sum to 1.0
SumsToOne(subset, names) ==
    /\ SumSkipNa(Norms(subset)) = One
    /\ \A n \in names : SumSkipNa(Values(ret.views[n])) = One

\* C5 as claimed: whenever the equities subset (likewise the bonds subset) is
\* non-empty its weight_norm sums to 1.0, and so does the weight_norm column of
\* every view grouped from it.
C5_SubsetSumsToOne ==
    ViewsReturned =>
        /\ equities(holdings) # <<>> => SumsToOne(equities(holdings), EquityViews)
        /\ bonds(holdings) # <<>> => SumsToOne(bonds(holdings), BondViews)

\* C5 amended: whenever the equities subset (likewise the bonds subset) is
\* non-empty and its total weight is greater than 0, its weight_norm sums to
\* 1.0, and so does the weight_norm column of every view grouped from it.
C5_SubsetSumsToOneWhenTotalPositive ==
    ViewsReturned =>
        /\ (equities(holdings) # <<>> /\ FGt(SumSkipNa(Weights(equities(holdings))), Zero))
              => SumsToOne(equities(holdings), EquityViews)
        /\ (bonds(holdings) # <<>> /\ FGt(SumSkipNa(Weights(bonds(holdings))), Zero))
              => SumsToOne(bonds(holdings), BondViews)

\* C5 witness: two equities and a bond, the equity total 0.5, one group per
\* equity, the norms summing to 1
C5_Witness ==
    /\ ViewsReturned
    /\ Len(equities(holdings)) = 2
    /\ Len(bonds(holdings)) = 1
    /\ SumSkipNa(Weights(equities(holdings))) = Q(1, 2)
    /\ Len(ret.views["equity_by_stock"]) = 2
    /\ SumSkipNa(Values(ret.views["equity_by_stock"])) = One

\* the weight column of a view, row by row
ViewColumn(n) ==
    IF n = "all_holdings" THEN Weights(ret.views[n]) ELSE Values(ret.views[n])

\* C6: every view returned by get_aggregated_views has its rows sorted by its
\* weight column in descending order: row[i] >= row[i+1] for adjacent rows.
C6_ViewsSortedDescending ==
    ViewsReturned =>
        \A n \in ViewNames :
            \A i \in 1..(Len(ViewColumn(n)) - 1) : FGe(ViewColumn(n)[i], ViewColumn(n)[i + 1])

\* C7: with skip_download false, fetch_and_process leaves in the raw file of
\* every URL item the content the site served during the call, also when a raw
\* file of that URL existed before.
C7_FreshDownloadWhenNotSkipped ==
    (Returned /\ ~call.skip_download) =>
        \A i \in 1..Len(config) :
            (IsUrlItem(i) /\ call.served[config[i].url].page = "ok"
                          /\ call.served[config[i].url].download)
                => RawFileOf(i) = File(call.served[config[i].url].lines)

EquityClasses == {<<"A", "z", "i", "o", "n", "a", "r", "i", "o">>, <<"A", "Z", "I", "O", "N", "A", "R", "I", "O">>, <<"a", "z", "i", "o", "n", "a", "r", "i", "o">>}
BondClasses ==
    {<<"O", "b", "b", "l", "i", "g", "a", "z", "i", "o", "n", "a", "r", "i", "o", " ", "G", "o", "v", "e", "r", "n", "a", "t", "i", "v", "o">>, <<"C", "o", "r", "p", "o", "r", "a", "t", "e", " ", "B", "o", "n", "d">>, <<"B", "O", "N", "D", "S">>, <<"O", "b", "b", "l", "i", "g", "a", "z", "i", "o", "n", "a", "r", "i", "o">>}
OtherClasses == {<<"A", "z", "i", "o", "n", "a", "r", "i", "o", " ", "G", "l", "o", "b", "a", "l", "e">>, <<"O", "t", "h", "e", "r">>, <<"B", "o", "n", " ", "d">>}

InClasses(rows, classes) ==
    LET Member(row) == row.asset_class \in classes
    IN  SelectSeq(rows, Member)

KeysOf(rows, group_cols) == {KeyOf(rows[i], group_cols) : i \in 1..Len(rows)}
ViewKeys(n) == {ret.views[n][i].key : i \in 1..Len(ret.views[n])}

\* C9: a ledger row is in the equities subset exactly when its asset_class
\* lower-cased equals "azionario", and in the bonds subset exactly when it
\* holds "obbligazionario" or "bond"; "Obbligazionario Governativo" and
\* "Corporate Bond" are bonds and no equities, "Azionario" is an equity and
\* no bond.
C9_SubsetsByAssetClass ==
    ViewsReturned =>
        /\ ViewKeys("equity_by_stock")
              = KeysOf(InClasses(holdings, EquityClasses), <<"ticker", "name">>)
        /\ ViewKeys("bond_by_type") = KeysOf(InClasses(holdings, BondClasses), <<"sector">>)
        /\ \A i \in 1..Len(holdings) :
              /\ holdings[i].asset_class \in {<<"O", "b", "b", "l", "i", "g", "a", "z", "i", "o", "n", "a", "r", "i", "o", " ", "G", "o", "v", "e", "r", "n", "a", "t", "i", "v", "o">>, <<"C", "o", "r", "p", "o", "r", "a", "t", "e", " ", "B", "o", "n", "d">>}
                    => IsBond(holdings[i]) /\ ~IsEquity(holdings[i])
              /\ holdings[i].asset_class = <<"A", "z", "i", "o", "n", "a", "r", "i", "o">>
                    => IsEquity(holdings[i]) /\ ~IsBond(holdings[i])

\* C9 witness: a corporate bond and an equity in upper case, each in its views only
C9_Witness ==
    /\ ViewsReturned
    /\ Len(holdings) = 2
    /\ holdings[1].asset_class = <<"C", "o", "r", "p", "o", "r", "a", "t", "e", " ", "B", "o", "n", "d">>
    /\ holdings[2].asset_class = <<"A", "Z", "I", "O", "N", "A", "R", "I", "O">>
    /\ Len(ret.views["equity_by_stock"]) = 1
    /\ Len(ret.views["bond_by_type"]) = 1

\* C10: when the equities (or bonds) subset is non-empty and its total weight
\* is not greater than 0, every row of it gets weight_norm = 0, and no NaN or
\* infinite weight_norm reaches a view.
C10_ZeroTotalGivesZeroNorm ==
    ViewsReturned =>
        /\ (equities(holdings) # <<>> /\ ~FGt(SumSkipNa(Weights(equities(holdings))), Zero))
              => /\ AllZero(Norms(equities(holdings)))
                 /\ \A n \in EquityViews : AllZero(Values(ret.views[n]))
        /\ (bonds(holdings) # <<>> /\ ~FGt(SumSkipNa(Weights(bonds(holdings))), Zero))
              => /\ AllZero(Norms(bonds(holdings)))
                 /\ \A n \in BondViews : AllZero(Values(ret.views[n]))

\* the grouped views and their grouping columns
GroupedViews == ViewNames \ {"all_holdings"}

ViewGroupCols(n) ==
    CASE n \in {"global_by_asset"} -> <<"asset_class">>
      [] n \in {"global_by_country", "equity_by_country", "bond_by_country"} -> <<"country">>
      [] n \in {"global_by_sector", "equity_by_sector", "bond_by_type"} -> <<"sector">>
      [] n \in {"equity_by_stock"} -> <<"ticker", "name">>

\* the index of the first ledger row of a group
FirstAppearance(key, group_cols) ==
    CHOOSE i \in 1..Len(holdings) :
        /\ KeyOf(holdings[i], group_cols) = key
        /\ \A j \in 1..(i - 1) : KeyOf(holdings[j], group_cols) # key

\* rows i < j of a grouped view with the same (defined) weight value
Tied(n, i, j) ==
    /\ i < j
    /\ ret.views[n][i].value = ret.views[n][j].value
    /\ ~IsNaN(ret.views[n][i].value)

\* the rows of a given weight, in their order in rows
RowsOfWeight(rows, w) ==
    LET Has(row) == row.weight = w
    IN  SelectSeq(rows, Has)

\* all_holdings lists the rows of every weight in their ledger order
AllHoldingsTiesInLedgerOrder ==
    \A k \in 1..Len(holdings) :
        ~IsNaN(holdings[k].weight) =>
            RowsOfWeight(ret.views["all_holdings"], holdings[k].weight)
                = RowsOfWeight(holdings, holdings[k].weight)

HasName(t, r) ==
    /\ "name" \notin t.missing
    /\ r.name \notin NaStrings
    /\ Strip(r.name) # <<>>

\* the names, stripped, of the raw rows that have one, in row order
NamesOfNamedRows(t) ==
    LET Named(r) == HasName(t, r)
        named == SelectSeq(t.rows, Named)
    IN  [i \in 1..Len(named) |-> Strip(named[i].name)]

\* C12: the table parse_holdings returns holds exactly the raw rows whose name
\* is present and non-empty, in their order: a row without a name is dropped,
\* every row of a table without a name column as well, no named row is dropped.
C12_ExactlyNamedRowsKept ==
    ParseReturned =>
        [i \in 1..Len(parsed) |-> parsed[i].name] = NamesOfNamedRows(table)

\* ------------------------------- get_aggregated_views on the asset classes
ClassSecurities ==
    {<<<<"A", "A", "P", "L">>, <<"A", "p", "p", "l", "e">>, <<"T", "e", "c", "h">>, <<"U", "S">>>>, <<<<"E", "N", "I">>, <<"E", "n", "i">>, <<"E", "n", "e", "r", "g", "y">>, <<"I", "T">>>>}

ClassRows ==
    {Row(s[1], s[2], s[3], s[4], a, Q(1, 2)) :
        s \in ClassSecurities, a \in EquityClasses \cup BondClasses \cup OtherClasses}

InitClasses ==
    /\ raw_dir = [s \in Stems |-> NoFile]
    /\ processed_dir = [s \in Stems |-> NoFile]
    /\ config = <<>>
    /\ loaded = TRUE
    /\ holdings \in SeqsUpTo(ClassRows, MaxClassRows)
    /\ ret = NoReturn
    /\ call = NoCall
    /\ outcome = <<>>
    /\ table = NoTable
    /\ parsed = <<>>
    /\ tie_order \in TieOrders

SpecClasses == InitClasses /\ [][NextViews]_vars

\* ------------------------------------- fetch_and_process on URLs of one stem
\* URLs other than Url1 whose etf_name is that of Url1: another host, and a
\* path that differs in its punctuation only
UrlHost == [netloc |-> <<"w", "w", "w", ".", "b", "l", "a", "c", "k", "r", "o", "c", "k", ".", "c", "o", "m">>, path |-> Url1.path]
UrlDash == [netloc |-> Url1.netloc, path |-> <<"/", "i", "t", "/", "p", "r", "o", "d", "o", "t", "t", "i", "-", "2", "5", "1", "8", "5", "0">>]

NameUrls == {Url1, UrlHost, UrlDash, Url2}

\* the holdings file the site has for each URL
HoldingsOf(u) ==
    CASE u = Url1 -> FileEquity
      [] u = UrlHost -> <<Header, DataLine(RawBtp)>>
      [] u = UrlDash -> <<Header, DataLine(RawCash), DataLine(RawBtp)>>
      [] u = Url2 -> <<Header, DataLine(RawMicrosoft)>>

\* the site serves the file of the URL, or the lookup of the link fails
NameAnswers(cfg, u) ==
    IF u \in UrlsOf(cfg)
    THEN {Answer("ok", TRUE, HoldingsOf(u)), Answer("nolink", FALSE, <<>>)}
    ELSE {Unasked}

NameConfigs == SeqsUpTo({[url |-> u, weight |-> Q(1, 2)] : u \in NameUrls}, MaxComponents)

NextNames ==
    \/ \E cfg \in NameConfigs, skip_download \in BOOLEAN :
          \E a1 \in NameAnswers(cfg, Url1), a2 \in NameAnswers(cfg, UrlHost),
             a3 \in NameAnswers(cfg, UrlDash), a4 \in NameAnswers(cfg, Url2) :
             RunAnalysis(cfg, skip_download,
                         [u \in NameUrls |->
                             CASE u = Url1 -> a1 [] u = UrlHost -> a2
                               [] u = UrlDash -> a3 [] u = Url2 -> a4])
    \/ ScriptRerun

SpecNames == Init /\ [][NextNames]_vars

\* C13: two URL items with different URLs never share a raw or cleaned file
\* (their etf_name differs), and the ledger rows of a URL item come from the
\* holdings of its own URL, within a call and across calls.
C13_OwnFilePerUrl ==
    Returned =>
        \A i \in 1..Len(config) :
            /\ \A j \in 1..Len(config) :
                  config[i].url # config[j].url
                      => etf_name(config[i].url) # etf_name(config[j].url)
            /\ ~FailedItem(i) =>
                  /\ RawFileOf(i) = File(HoldingsOf(config[i].url))
                  /\ DueFrame(i)
                        = Scale(ParseHoldings(
                                    read_csv(clean_csv(HoldingsOf(config[i].url)).lines).table),
                                config[i].weight)

====
